---- MODULE Spec2Model ----
(***************************************************************************)
(* EshWord (src/EshWord.py): the tabbed editor's document persistence.     *)
(*                                                                         *)
(* The state is the tab widget (one QTextEdit per tab, the tab text being  *)
(* the document's location), the autosave flag, the files on disk, and     *)
(* what the last handler showed to the user.  One action per handler.      *)
(*                                                                         *)
(* Text is a sequence of symbols.  A symbol is one character of a          *)
(* document, or one lexical unit of the JSON text json.dump produces (a    *)
(* brace, a colon, a digit, a literal, a whole font family name).  The     *)
(* insignificant white space of indent=4 is left out.  A file on disk       *)
(* holds such a text, so a JSON file read as plain text yields its symbols *)
(* as the document's characters, and a plain file read as JSON has to      *)
(* parse.                                                                  *)
(***************************************************************************)
EXTENDS Integers, Sequences, FiniteSets, TLC

(* ------------------------------ bounds -------------------------------- *)
\* Longest text typed into an editor.
MaxLen == 1
\* Most tabs open at once (new_document and load_file are capped here).
MaxTabs == 2
\* Largest point size increase_font_size is followed to.
MaxSize == 11
\* Most formatting handlers followed in one run of the whole application.
MaxFmtOps == 1
\* Longest text load_file is followed on.
MaxLoadLen == 3

(* ------------------------- program constants -------------------------- *)
\* QFont("Segoe UI", 10) in add_new_tab.
DefaultPointSize == 10
\* The size both font-size handlers fall back to when pointSize() <= 0.
FallbackPointSize == 10

Untitled == <<"Untitled">>
EshSuffix == ".esh"
DefaultFamily == "Segoe UI"

(* --------------------------- JSON text layer -------------------------- *)
Q == "\""
BS == "\\"
DigitSyms == <<"0", "1", "2", "3", "4", "5", "6", "7", "8", "9">>

StrVal(s) == [t |-> "str", s |-> s]
NumVal(n) == [t |-> "num", n |-> n]
BoolVal(b) == [t |-> "bool", b |-> b]

RECURSIVE EscapeStr(_)
\* json.dump escapes the quote and the backslash inside a string.
EscapeStr(s) ==
    IF s = <<>> THEN <<>>
    ELSE (IF Head(s) \in {Q, BS} THEN <<BS, Head(s)>> ELSE <<Head(s)>>)
         \o EscapeStr(Tail(s))

JsonStr(s) == <<Q>> \o EscapeStr(s) \o <<Q>>

RECURSIVE NatDigits(_)
NatDigits(n) ==
    IF n < 10 THEN <<DigitSyms[n + 1]>>
    ELSE NatDigits(n \div 10) \o <<DigitSyms[(n % 10) + 1]>>

JsonNum(n) == IF n < 0 THEN <<"-">> \o NatDigits(-n) ELSE NatDigits(n)

JsonValue(v) ==
    CASE v.t = "str" -> JsonStr(v.s)
      [] v.t = "num" -> JsonNum(v.n)
      [] v.t = "bool" -> IF v.b THEN <<"true">> ELSE <<"false">>

RECURSIVE JsonMembers(_)
JsonMembers(items) ==
    IF items = <<>> THEN <<>>
    ELSE JsonStr(<<Head(items).key>>) \o <<":">> \o JsonValue(Head(items).val)
         \o (IF Tail(items) = <<>> THEN <<>> ELSE <<",">>)
         \o JsonMembers(Tail(items))

\* json.dump(data, f, indent=4) of a dict, keys in insertion order.
JsonDump(items) == <<"{">> \o JsonMembers(items) \o <<"}">>

ParseFail == [ok |-> FALSE]

RECURSIVE ScanString(_, _, _)
\* The characters of a string up to its closing quote; i is past the opening one.
ScanString(t, i, acc) ==
    IF i > Len(t) THEN ParseFail
    ELSE IF t[i] = Q THEN [ok |-> TRUE, val |-> StrVal(acc), next |-> i + 1]
    ELSE IF t[i] = BS
         THEN IF i + 1 <= Len(t) /\ t[i + 1] \in {Q, BS}
              THEN ScanString(t, i + 2, Append(acc, t[i + 1]))
              ELSE ParseFail
    ELSE ScanString(t, i + 1, Append(acc, t[i]))

DigitOf(sym) == (CHOOSE k \in 1..10 : DigitSyms[k] = sym) - 1
IsDigit(sym) == \E k \in 1..10 : DigitSyms[k] = sym

RECURSIVE ScanDigits(_, _, _)
ScanDigits(t, i, acc) ==
    IF i <= Len(t) /\ IsDigit(t[i])
    THEN ScanDigits(t, i + 1, acc * 10 + DigitOf(t[i]))
    ELSE [ok |-> TRUE, val |-> NumVal(acc), next |-> i]

ScanValue(t, i) ==
    IF i > Len(t) THEN ParseFail
    ELSE IF t[i] = Q THEN ScanString(t, i + 1, <<>>)
    ELSE IF t[i] = "true" THEN [ok |-> TRUE, val |-> BoolVal(TRUE), next |-> i + 1]
    ELSE IF t[i] = "false" THEN [ok |-> TRUE, val |-> BoolVal(FALSE), next |-> i + 1]
    ELSE IF IsDigit(t[i]) THEN ScanDigits(t, i, 0)
    ELSE IF t[i] = "-" /\ i + 1 <= Len(t) /\ IsDigit(t[i + 1])
         THEN LET r == ScanDigits(t, i + 1, 0)
              IN  [ok |-> TRUE, val |-> NumVal(-r.val.n), next |-> r.next]
    ELSE ParseFail

RECURSIVE ScanMembers(_, _, _)
\* The members of an object; i is at a key.
ScanMembers(t, i, acc) ==
    IF i > Len(t) \/ t[i] # Q THEN ParseFail
    ELSE LET k == ScanString(t, i + 1, <<>>)
         IN  IF ~k.ok \/ k.next > Len(t) \/ t[k.next] # ":" THEN ParseFail
             ELSE LET v == ScanValue(t, k.next + 1)
                  IN  IF ~v.ok \/ v.next > Len(t) THEN ParseFail
                      ELSE LET more == Append(acc, [key |-> k.val.s, val |-> v.val])
                           IN  IF t[v.next] = "}"
                               THEN IF v.next = Len(t)
                                    THEN [ok |-> TRUE, items |-> more]
                                    ELSE ParseFail
                               ELSE IF t[v.next] = ","
                                    THEN ScanMembers(t, v.next + 1, more)
                                    ELSE ParseFail

\* json.load(f): the members of the object the text holds, or a failure.
\* Only objects are parsed: every other JSON value makes load_file raise
\* as well (a TypeError at `"text" not in data` or at data["text"]).
JsonLoad(t) ==
    IF Len(t) < 2 \/ t[1] # "{" THEN ParseFail
    ELSE IF t[2] = "}"
         THEN IF Len(t) = 2 THEN [ok |-> TRUE, items |-> <<>>] ELSE ParseFail
         ELSE ScanMembers(t, 2, <<>>)

\* `key in data` and data[key] of the parsed dict (the last duplicate wins).
HasKey(items, key) == \E i \in 1..Len(items) : items[i].key = <<key>>
GetKey(items, key) ==
    LET last == CHOOSE i \in 1..Len(items) :
                    /\ items[i].key = <<key>>
                    /\ \A j \in (i + 1)..Len(items) : items[j].key # <<key>>
    IN  items[last].val

(* ------------------------------- state -------------------------------- *)
VARIABLES
    tabs,              \* the QTabWidget: one record per tab, in tab order
    current,           \* QTabWidget.currentIndex(), 1-based
    autosave_enabled,  \* self.autosave_enabled
    fs,                \* the files on disk, by path
    report,            \* what the last handler showed, and on which channel
    fmtOps             \* formatting handlers run so far (saturating)

vars == <<tabs, current, autosave_enabled, fs, report, fmtOps>>

\* A path is its stem and its extension; str.endswith looks at the extension.
Paths == {<<"a", ".esh">>, <<"b", ".txt">>}
\* The file dialogs return a path, or "" when cancelled.
Cancelled == <<>>
EndsWithEsh(file_name) == file_name[Len(file_name)] = EshSuffix

\* The characters typed: the quote, which json.dump has to escape.
Alphabet == {Q}
Families == {DefaultFamily, "Mono"}

RECURSIVE TextsUpTo(_)
TextsUpTo(n) ==
    IF n = 0 THEN {<<>>}
    ELSE LET shorter == TextsUpTo(n - 1)
         IN  shorter \union {Append(s, c) : s \in shorter, c \in Alphabet}

\* The texts the user types.
Contents == TextsUpTo(MaxLen)

\* The fonts the font dialog is followed on: one per family, at the smallest size.
FontChoices ==
    {[family |-> f, size |-> 1, bold |-> (f # DefaultFamily), italic |-> FALSE,
      underline |-> FALSE] : f \in Families}

\* default_font = QFont("Segoe UI", 10)
DefaultFont ==
    [family |-> DefaultFamily, size |-> DefaultPointSize,
     bold |-> FALSE, italic |-> FALSE, underline |-> FALSE]

NoFile == [exists |-> FALSE, data |-> <<>>]
File(data) == [exists |-> TRUE, data |-> data]

\* A handler's outcome: nothing shown, a status bar message, a modal
\* QMessageBox.critical, or an exception that left the handler (PyQt6 then
\* aborts the application: no excepthook is installed).
Report(op, channel, msg) == [op |-> op, channel |-> channel, msg |-> msg]
Quiet(op) == Report(op, "none", "")
Alive == report.channel # "raised"

Editor == tabs[current]
Title == tabs[current].title

(* ------------------------------- file I/O ----------------------------- *)
\* open(file_name, "w") followed by one write: it succeeds, open() raises and
\* the file is as it was, or the write raises after open() truncated the file.
IoOutcomes == {"ok", "open_fails", "write_fails"}

OpenAndWrite(files, file_name, data, outcome) ==
    CASE outcome = "ok" -> [files EXCEPT ![file_name] = File(data)]
      [] outcome = "open_fails" -> files
      [] outcome = "write_fails" -> [files EXCEPT ![file_name] = File(<<>>)]

\* The dict write_to_file builds from the editor.
EshData(editor) ==
    << [key |-> "text", val |-> StrVal(editor.text)],
       [key |-> "font", val |-> StrVal(<<editor.font.family>>)],
       [key |-> "size", val |-> NumVal(editor.font.size)],
       [key |-> "bold", val |-> BoolVal(editor.font.bold)],
       [key |-> "italic", val |-> BoolVal(editor.font.italic)],
       [key |-> "underline", val |-> BoolVal(editor.font.underline)] >>

\* editor.toPlainText() written by f.write.
PlainData(editor) == editor.text

\* write_to_file(file_name, is_esh): the files afterwards; it raises exactly
\* when the outcome is not "ok" (`except Exception as e: raise e`).
write_to_file(files, editor, file_name, is_esh, outcome) ==
    IF is_esh
    THEN OpenAndWrite(files, file_name, JsonDump(EshData(editor)), outcome)
    ELSE OpenAndWrite(files, file_name, PlainData(editor), outcome)

\* A failure of load_file's try block, named by the exception: OSError from
\* open(), JSONDecodeError from json.load, the ValueError load_file raises
\* itself, and the TypeError of setPlainText for a `text` that is no string.
LoadFails(why) == [ok |-> FALSE, why |-> why]

\* As ReadContent, with data.get("text", "") in place of the check for the key.
ReadContent_default_text(files, file_name, readable) ==
    IF ~files[file_name].exists \/ ~readable THEN LoadFails("OSError")
    ELSE IF EndsWithEsh(file_name)
         THEN LET data == JsonLoad(files[file_name].data)
              IN  IF ~data.ok THEN LoadFails("JSONDecodeError")
                  ELSE IF ~HasKey(data.items, "text")
                       THEN [ok |-> TRUE, content |-> <<>>]
                  ELSE IF GetKey(data.items, "text").t # "str"
                       THEN LoadFails("TypeError")
                  ELSE [ok |-> TRUE, content |-> GetKey(data.items, "text").s]
         ELSE [ok |-> TRUE, content |-> files[file_name].data]

\* The body of load_file's try block up to add_new_tab: the content the new
\* tab gets, or the failure the except clause reports.
ReadContent(files, file_name, readable) ==
    IF ~files[file_name].exists \/ ~readable THEN LoadFails("OSError")
    ELSE IF EndsWithEsh(file_name)
         THEN LET data == JsonLoad(files[file_name].data)
              IN  IF ~data.ok THEN LoadFails("JSONDecodeError")
                  ELSE IF ~HasKey(data.items, "text")
                       THEN LoadFails("missing 'text' key")
                  ELSE IF GetKey(data.items, "text").t # "str"
                       THEN LoadFails("TypeError")
                  ELSE [ok |-> TRUE, content |-> GetKey(data.items, "text").s]
         ELSE [ok |-> TRUE, content |-> files[file_name].data]

(* ------------------------------- tabs --------------------------------- *)
NewTab(title, content) ==
    [title |-> title, text |-> content, font |-> DefaultFont]

\* add_new_tab(title, content): the tab list afterwards; the new tab is made current.
add_new_tab(tabList, title, content) == Append(tabList, NewTab(title, content))

RemoveAt(s, i) == SubSeq(s, 1, i - 1) \o SubSeq(s, i + 1, Len(s))

\* QTabWidget.removeTab: the index that is current afterwards (0: none left).
\* Removing the current tab selects its right neighbour, now at the same index.
IndexAfterRemove(cur, i, n) ==
    IF n = 1 THEN 0
    ELSE IF i < cur THEN cur - 1
    ELSE IF i = cur /\ cur = n THEN cur - 1
    ELSE cur

CanAddTab == Len(tabs) < MaxTabs

(* ------------------------------ start-up ------------------------------ *)
\* On disk at start: an .esh file without the `text` key, and no b.txt.
InitialFiles ==
    [p \in Paths |->
        IF EndsWithEsh(p)
        THEN File(JsonDump(<<[key |-> "font", val |-> StrVal(<<"Mono">>)]>>))
        ELSE NoFile]

Init ==
    /\ tabs = add_new_tab(<<>>, Untitled, <<>>)
    /\ current = 1
    /\ autosave_enabled = TRUE
    /\ fs = InitialFiles
    /\ report = Quiet("init")
    /\ fmtOps = 0

(* ----------------------------- handlers ------------------------------- *)
\* load_file with the open dialog returning file_name ("" when cancelled).
load_from(file_name, readable) ==
    /\ Alive
    /\ IF file_name = Cancelled
       THEN /\ readable
            /\ report' = Quiet("load_file")
            /\ UNCHANGED <<tabs, current>>
       ELSE LET got == ReadContent(fs, file_name, readable)
            IN  IF got.ok
                THEN /\ CanAddTab
                     /\ Len(got.content) <= MaxLoadLen
                     /\ tabs' = add_new_tab(tabs, file_name, got.content)
                     /\ current' = Len(tabs) + 1
                     /\ report' = Report("load_file", "status", "File loaded")
                ELSE /\ report' = Report("load_file", "dialog", got.why)
                     /\ UNCHANGED <<tabs, current>>
    /\ UNCHANGED <<autosave_enabled, fs, fmtOps>>

load_file ==
    \E file_name \in Paths \union {Cancelled}, readable \in BOOLEAN :
        load_from(file_name, readable)

\* As save_file_as, with setTabText moved before the write.
save_file_as_renames_first(op, file_name, outcome) ==
    IF file_name = Cancelled
    THEN /\ outcome = "ok"
         /\ report' = Quiet(op)
         /\ UNCHANGED <<tabs, fs>>
    ELSE /\ fs' = IF EndsWithEsh(file_name)
                  THEN write_to_file(fs, Editor, file_name, TRUE, outcome)
                  ELSE OpenAndWrite(fs, file_name, PlainData(Editor), outcome)
         /\ tabs' = [tabs EXCEPT ![current].title = file_name]
         /\ report' = IF outcome = "ok"
                      THEN Report(op, "status", "File saved")
                      ELSE Report(op, "dialog", "Save Error")

\* As save_file_as, writing through write_to_file(file_name) whatever the extension.
save_file_as_always_esh(op, file_name, outcome) ==
    IF file_name = Cancelled
    THEN /\ outcome = "ok"
         /\ report' = Quiet(op)
         /\ UNCHANGED <<tabs, fs>>
    ELSE /\ fs' = write_to_file(fs, Editor, file_name, TRUE, outcome)
         /\ IF outcome = "ok"
            THEN /\ tabs' = [tabs EXCEPT ![current].title = file_name]
                 /\ report' = Report(op, "status", "File saved")
            ELSE /\ report' = Report(op, "dialog", "Save Error")
                 /\ UNCHANGED tabs

\* save_file_as, reached from save_file on an Untitled tab: the path comes
\* from the save dialog; the tab text is set only after the write succeeded.
save_file_as(op, file_name, outcome) ==
    IF file_name = Cancelled
    THEN /\ outcome = "ok"
         /\ report' = Quiet(op)
         /\ UNCHANGED <<tabs, fs>>
    ELSE /\ fs' = IF EndsWithEsh(file_name)
                  THEN write_to_file(fs, Editor, file_name, TRUE, outcome)
                  ELSE OpenAndWrite(fs, file_name, PlainData(Editor), outcome)
         /\ IF outcome = "ok"
            THEN /\ tabs' = [tabs EXCEPT ![current].title = file_name]
                 /\ report' = Report(op, "status", "File saved")
            ELSE /\ report' = Report(op, "dialog", "Save Error")
                 /\ UNCHANGED tabs

\* The branch of save_file for a tab that has a location:
\* self.write_to_file(title), is_esh left at its default, outside any try.
save_located(title, outcome) ==
    /\ fs' = write_to_file(fs, Editor, title, TRUE, outcome)
    /\ report' = IF outcome = "ok"
                 THEN Quiet("save_file")
                 ELSE Report("save_file", "raised", "")
    /\ UNCHANGED tabs

\* save_file with the save dialog, if it is shown, returning file_name.
save_to(file_name, outcome) ==
    /\ Alive
    /\ IF Title = Untitled
       THEN save_file_as("save_file", file_name, outcome)
       ELSE /\ file_name = Cancelled
            /\ save_located(Title, outcome)
    /\ UNCHANGED <<current, autosave_enabled, fmtOps>>

save_file ==
    \E file_name \in Paths \union {Cancelled}, outcome \in IoOutcomes :
        save_to(file_name, outcome)

\* As autosave_tick, without the test of autosave_enabled.
autosave_tick_ignores_flag(outcome) ==
    /\ Alive
    /\ IF Title # Untitled
       THEN /\ fs' = IF EndsWithEsh(Title)
                     THEN write_to_file(fs, Editor, Title, TRUE, outcome)
                     ELSE OpenAndWrite(fs, Title, PlainData(Editor), outcome)
            /\ report' = IF outcome = "ok"
                         THEN Report("autosave", "status", "Autosaved")
                         ELSE Report("autosave", "status", "Autosave failed")
       ELSE /\ outcome = "ok"
            /\ report' = Quiet("autosave")
            /\ UNCHANGED fs
    /\ UNCHANGED <<tabs, current, autosave_enabled, fmtOps>>

\* As autosave_tick, without the try around the write.
autosave_tick_propagates(outcome) ==
    /\ Alive
    /\ IF autosave_enabled /\ Title # Untitled
       THEN /\ fs' = IF EndsWithEsh(Title)
                     THEN write_to_file(fs, Editor, Title, TRUE, outcome)
                     ELSE OpenAndWrite(fs, Title, PlainData(Editor), outcome)
            /\ report' = IF outcome = "ok"
                         THEN Report("autosave", "status", "Autosaved")
                         ELSE Report("autosave", "raised", "")
       ELSE /\ outcome = "ok"
            /\ report' = Quiet("autosave")
            /\ UNCHANGED fs
    /\ UNCHANGED <<tabs, current, autosave_enabled, fmtOps>>

\* As autosave_tick, taking the title from the first tab, not the current one.
autosave_tick_first_tab(outcome) ==
    /\ Alive
    /\ IF autosave_enabled /\ tabs[1].title # Untitled
       THEN /\ fs' = IF EndsWithEsh(tabs[1].title)
                     THEN write_to_file(fs, Editor, tabs[1].title, TRUE, outcome)
                     ELSE OpenAndWrite(fs, tabs[1].title, PlainData(Editor), outcome)
            /\ report' = IF outcome = "ok"
                         THEN Report("autosave", "status", "Autosaved")
                         ELSE Report("autosave", "status", "Autosave failed")
       ELSE /\ outcome = "ok"
            /\ report' = Quiet("autosave")
            /\ UNCHANGED fs
    /\ UNCHANGED <<tabs, current, autosave_enabled, fmtOps>>

\* autosave, the timer's callback, with its write (if any) ending in outcome.
autosave_tick(outcome) ==
    /\ Alive
    /\ IF autosave_enabled /\ Title # Untitled
       THEN /\ fs' = IF EndsWithEsh(Title)
                     THEN write_to_file(fs, Editor, Title, TRUE, outcome)
                     ELSE OpenAndWrite(fs, Title, PlainData(Editor), outcome)
            /\ report' = IF outcome = "ok"
                         THEN Report("autosave", "status", "Autosaved")
                         ELSE Report("autosave", "status", "Autosave failed")
       ELSE /\ outcome = "ok"
            /\ report' = Quiet("autosave")
            /\ UNCHANGED fs
    /\ UNCHANGED <<tabs, current, autosave_enabled, fmtOps>>

autosave == \E outcome \in IoOutcomes : autosave_tick(outcome)

\* toggle_autosave(state): stateChanged passes the new state as an int, which
\* the handler compares with the enum member Qt.CheckState.Checked.  Whether
\* an int equals the member depends on the binding's enum type, so both
\* readings are followed: by value, or never equal.
toggle_autosave ==
    /\ Alive
    /\ \E checked \in BOOLEAN, byValue \in BOOLEAN :
        autosave_enabled' = (checked /\ byValue)
    /\ report' = Quiet("toggle_autosave")
    /\ UNCHANGED <<tabs, current, fs, fmtOps>>

new_document ==
    /\ Alive
    /\ CanAddTab
    /\ tabs' = add_new_tab(tabs, Untitled, <<>>)
    /\ current' = Len(tabs) + 1
    /\ report' = Quiet("new_document")
    /\ UNCHANGED <<autosave_enabled, fs, fmtOps>>

\* As close_tab_at, without the test for an empty tab widget.
close_tab_leaves_empty(index) ==
    /\ Alive
    /\ tabs' = RemoveAt(tabs, index)
    /\ current' = IndexAfterRemove(current, index, Len(tabs))
    /\ report' = Quiet("close_tab")
    /\ UNCHANGED <<autosave_enabled, fs, fmtOps>>

\* close_tab(index): the close button of the tab at index.
close_tab_at(index) ==
    /\ Alive
    /\ LET rest == RemoveAt(tabs, index)
       IN  IF Len(rest) = 0
           THEN /\ tabs' = add_new_tab(rest, Untitled, <<>>)
                /\ current' = 1
           ELSE /\ tabs' = rest
                /\ current' = IndexAfterRemove(current, index, Len(tabs))
    /\ report' = Quiet("close_tab")
    /\ UNCHANGED <<autosave_enabled, fs, fmtOps>>

close_tab == \E index \in 1..Len(tabs) : close_tab_at(index)

\* The user clicks another tab.
select_tab ==
    /\ Alive
    /\ \E index \in 1..Len(tabs) :
        /\ index # current
        /\ current' = index
    /\ report' = Quiet("select_tab")
    /\ UNCHANGED <<tabs, autosave_enabled, fs, fmtOps>>

\* The user edits the text of the current editor.
edit_text ==
    /\ Alive
    /\ \E content \in Contents :
        /\ content # Editor.text
        /\ tabs' = [tabs EXCEPT ![current].text = content]
    /\ report' = Quiet("edit_text")
    /\ UNCHANGED <<current, autosave_enabled, fs, fmtOps>>

(* ------------------------- formatting handlers ------------------------ *)
\* The editor's font is one record: currentFont() reads it, setFont and
\* setCurrentFont replace it.
SetFont(op, font) ==
    /\ tabs' = [tabs EXCEPT ![current].font = font]
    /\ report' = Quiet(op)
    /\ fmtOps' = IF fmtOps < MaxFmtOps THEN fmtOps + 1 ELSE fmtOps
    /\ UNCHANGED <<current, autosave_enabled, fs>>

select_font ==
    /\ Alive
    /\ \E font \in FontChoices : SetFont("select_font", font)

make_bold ==
    /\ Alive
    /\ SetFont("make_bold", [Editor.font EXCEPT !.bold = ~Editor.font.bold])

make_italic ==
    /\ Alive
    /\ SetFont("make_italic", [Editor.font EXCEPT !.italic = ~Editor.font.italic])

make_underline ==
    /\ Alive
    /\ SetFont("make_underline",
               [Editor.font EXCEPT !.underline = ~Editor.font.underline])

\* The size increase_font_size sets.
IncreasedSize(pointSize) ==
    LET size == IF pointSize <= 0 THEN FallbackPointSize ELSE pointSize
    IN  size + 1

\* As DecreasedSize, without the test `size > 1`.
DecreasedSize_no_floor(pointSize) ==
    LET size == IF pointSize <= 0 THEN FallbackPointSize ELSE pointSize
    IN  size - 1

\* The size the editor has after decrease_font_size.
DecreasedSize(pointSize) ==
    LET size == IF pointSize <= 0 THEN FallbackPointSize ELSE pointSize
    IN  IF size > 1 THEN size - 1 ELSE pointSize

increase_font_size ==
    /\ Alive
    /\ Editor.font.size < MaxSize
    /\ SetFont("increase_font_size",
               [Editor.font EXCEPT !.size = IncreasedSize(Editor.font.size)])

decrease_font_size ==
    /\ Alive
    /\ SetFont("decrease_font_size",
               [Editor.font EXCEPT !.size = DecreasedSize(Editor.font.size)])

Format ==
    \/ select_font
    \/ make_bold
    \/ make_italic
    \/ make_underline
    \/ increase_font_size
    \/ decrease_font_size

(* --------------------------- specifications --------------------------- *)
Next ==
    \/ load_file
    \/ save_file
    \/ autosave
    \/ toggle_autosave
    \/ new_document
    \/ close_tab
    \/ select_tab
    \/ edit_text
    \/ (fmtOps < MaxFmtOps /\ Format)

Spec == Init /\ [][Next]_vars

\* The formatting handlers alone, on the start-up document, as often as they
\* are invoked.
NextFont == Format

SpecFont == Init /\ [][NextFont]_vars

(* ------------------------------ claims -------------------------------- *)
\* The document load_file opens from file_name, were it to load it now.
Reloaded(files, file_name) ==
    LET got == ReadContent(files, file_name, TRUE)
    IN  IF got.ok
        THEN [ok |-> TRUE, doc |-> NewTab(file_name, got.content)]
        ELSE [ok |-> FALSE]

\* A step in which save-as wrote the current document to file_name and succeeded.
SavedAs(file_name) == Title = Untitled /\ save_to(file_name, "ok")

\* The text holds the six-key record of the editor.
IsEshRecordOf(data, editor) ==
    LET d == JsonLoad(data)
    IN  /\ d.ok
        /\ Len(d.items) = 6
        /\ \A k \in {"text", "font", "size", "bold", "italic", "underline"} :
               HasKey(d.items, k)
        /\ GetKey(d.items, "text") = StrVal(editor.text)
        /\ GetKey(d.items, "font") = StrVal(<<editor.font.family>>)
        /\ GetKey(d.items, "size") = NumVal(editor.font.size)
        /\ GetKey(d.items, "bold") = BoolVal(editor.font.bold)
        /\ GetKey(d.items, "italic") = BoolVal(editor.font.italic)
        /\ GetKey(d.items, "underline") = BoolVal(editor.font.underline)

\* C1: structured round trip.  Saving a document to a path ending in .esh and
\* then loading that path yields a document with the same content and the
\* same five formatting fields.
C1_StructuredRoundTrip ==
    [][\A p \in Paths :
          (EndsWithEsh(p) /\ SavedAs(p)) =>
              LET back == Reloaded(fs', p)
              IN  /\ back.ok
                  /\ back.doc.text = Editor.text
                  /\ back.doc.font = Editor.font]_vars

\* A step that wrote the current document to its location and succeeded:
\* by save-as, by save on a located document, or by an autosave tick.
WroteLocation ==
    \/ \E p \in Paths : SavedAs(p)
    \/ (Title # Untitled /\ save_to(Cancelled, "ok"))
    \/ report' = Report("autosave", "status", "Autosaved")

\* C2: the encoding follows the extension on every write path.  After a
\* successful write by save-as, save or autosave the file holds the six-key
\* JSON record iff the path ends in .esh, and exactly the raw content otherwise.
C2_EncodingByExtension ==
    [][WroteLocation =>
          LET p == tabs'[current'].title
          IN  IF EndsWithEsh(p)
              THEN IsEshRecordOf(fs'[p].data, Editor)
              ELSE fs'[p].data = Editor.text]_vars

\* C5: a user-initiated load or save whose I/O fails ends in a reported error,
\* not an unhandled exception, and leaves the tabs (locations, contents,
\* formatting) and the selection as they were.
C5_FailuresReported ==
    [][(/\ report'.op \in {"load_file", "save_file"}
        /\ report'.channel \in {"dialog", "raised"}) =>
          /\ report'.channel = "dialog"
          /\ tabs' = tabs
          /\ current' = current]_vars

\* The step leaves the tab at index i, now at index j, at its location, or
\* gives it one by a successful save-as of the current, Untitled document.
KeepsLocation(i, j) ==
    /\ tabs[i].title # Untitled => tabs'[j].title = tabs[i].title
    /\ (tabs[i].title = Untitled /\ tabs'[j].title # Untitled) =>
           /\ i = current
           /\ SavedAs(tabs'[j].title)
           /\ fs'[tabs'[j].title].exists

\* C3: the persistence state machine of a tab.  A tab starts Untitled or at
\* the path it was loaded from; its location changes from Untitled to a path
\* only in a successful save-as; once it is a path, every step (save,
\* autosave or other) leaves it that path, so it is never Untitled again.
\* Tabs keep their index except in close_tab, which destroys the tab at index
\* and moves the tabs after it down by one.
C3_LocationStateMachine ==
    /\ [](\A i \in 1..Len(tabs) : tabs[i].title \in Paths \union {Untitled})
    /\ [][IF report'.op = "close_tab"
          THEN \E index \in 1..Len(tabs) :
                  /\ close_tab_at(index)
                  /\ \A i \in 1..(index - 1) : KeepsLocation(i, i)
                  /\ \A i \in (index + 1)..Len(tabs) : KeepsLocation(i, i - 1)
                  /\ Len(tabs) = 1 => tabs'[1].title = Untitled
          ELSE /\ Len(tabs') >= Len(tabs)
               /\ \A i \in 1..Len(tabs) : KeepsLocation(i, i)
               /\ \A j \in (Len(tabs) + 1)..Len(tabs') :
                     tabs'[j].title # Untitled =>
                         /\ report' = Report("load_file", "status", "File loaded")
                         /\ load_from(tabs'[j].title, TRUE)]_vars

\* C3's case: a save-as has just given an Untitled tab its path.
C3_Witness ==
    /\ report = Report("save_file", "status", "File saved")
    /\ Title \in Paths
    /\ Len(tabs) = 2

\* C4: an autosave tick does no file I/O and reports nothing whenever autosave
\* is disabled or the current document is Untitled; in particular an Untitled
\* document is never written by autosave.
C4_AutosaveNoOp ==
    [][((\E outcome \in IoOutcomes : autosave_tick(outcome))
          /\ (~autosave_enabled \/ Title = Untitled)) =>
            /\ fs' = fs
            /\ report'.channel = "none"]_vars

\* C4's case: a tick has passed over a located document with unsaved text
\* while autosave was off.
C4_Witness ==
    /\ report = Quiet("autosave")
    /\ ~autosave_enabled
    /\ Title \in Paths
    /\ fs[Title].data # (IF EndsWithEsh(Title)
                         THEN JsonDump(EshData(Editor))
                         ELSE PlainData(Editor))

\* C6: an autosave tick whose write fails ends in a status bar message only
\* (no dialog, no exception), leaves every tab and the selection as they
\* were, and editing, saving and ticking stay enabled.
C6_AutosaveFailureContained ==
    /\ [](report.op = "autosave" =>
              (ENABLED edit_text /\ ENABLED save_file /\ ENABLED autosave))
    /\ [][\A outcome \in IoOutcomes \ {"ok"} :
             (autosave_enabled /\ Title # Untitled /\ autosave_tick(outcome)) =>
                 /\ report' = Report("autosave", "status", "Autosave failed")
                 /\ tabs' = tabs
                 /\ current' = current]_vars

\* C6's case: a tick has just failed to write a located document.
C6_Witness ==
    /\ report = Report("autosave", "status", "Autosave failed")
    /\ Title \in Paths
    /\ autosave_enabled

\* The .esh file at the path does not parse, or parses to a record without `text`.
LacksText(files, p) ==
    /\ EndsWithEsh(p)
    /\ files[p].exists
    /\ LET d == JsonLoad(files[p].data) IN ~d.ok \/ ~HasKey(d.items, "text")

\* C7: loading a path ending in .esh whose record lacks the `text` key, or
\* does not parse, fails with an error dialog, adds no tab, and leaves the tab
\* list and the selection unchanged.
C7_MissingTextRejected ==
    [][\A p \in Paths :
          (report'.op = "load_file" /\ LacksText(fs, p) /\ load_from(p, TRUE)) =>
              /\ report'.channel = "dialog"
              /\ report'.msg \in {"missing 'text' key", "JSONDecodeError"}
              /\ tabs' = tabs
              /\ current' = current]_vars

\* C7's case: a parseable .esh record without `text` has just been refused.
C7_Witness ==
    /\ report = Report("load_file", "dialog", "missing 'text' key")
    /\ \E p \in Paths : LacksText(fs, p) /\ JsonLoad(fs[p].data).ok

\* C8: the point-size floor.  Every document's pointSize is at least 1;
\* decrease_font_size changes nothing at pointSize 1; and increasing and then
\* decreasing returns the size it started from.
C8_SizeFloor ==
    /\ [](\A i \in 1..Len(tabs) : tabs[i].font.size >= 1)
    /\ [][/\ (decrease_font_size /\ Editor.font.size = 1) => tabs' = tabs
          /\ decrease_font_size => tabs'[current].font.size >= 1
          /\ increase_font_size =>
                 DecreasedSize(tabs'[current].font.size) = Editor.font.size]_vars

\* C8's case: decrease_font_size has run on a document at pointSize 1.
C8_Witness ==
    /\ report = Quiet("decrease_font_size")
    /\ Editor.font.size = 1
    /\ Editor.font.italic

\* C9: plain-text round trip.  Save-as to a path not ending in .esh writes
\* exactly the document's content, and loading that path yields a document
\* with the same content and the default formatting.
C9_PlainRoundTrip ==
    [][\A p \in Paths :
          (~EndsWithEsh(p) /\ SavedAs(p)) =>
              LET back == Reloaded(fs', p)
              IN  /\ fs'[p].data = Editor.text
                  /\ back.ok
                  /\ back.doc.text = Editor.text
                  /\ back.doc.font = DefaultFont]_vars

\* C9's case: a formatted document was saved as plain text and the file has
\* been loaded into a second tab.
C9_Witness ==
    /\ report = Report("load_file", "status", "File loaded")
    /\ Len(tabs) = 2
    /\ ~EndsWithEsh(tabs[1].title)
    /\ tabs[2].title = tabs[1].title
    /\ tabs[1].font # DefaultFont
    /\ tabs[1].text # <<>>
    /\ tabs[2].text = tabs[1].text
    /\ tabs[2].font = DefaultFont
    /\ fs[tabs[1].title].data = tabs[1].text

\* C10: at least one tab is always open and the current index names one of
\* them; closing the only tab leaves one fresh, empty, Untitled tab.
C10_AlwaysATab ==
    /\ [](Len(tabs) >= 1 /\ current \in 1..Len(tabs))
    /\ [][(Len(tabs) = 1 /\ close_tab) =>
             /\ Len(tabs') = 1
             /\ tabs'[1] = NewTab(Untitled, <<>>)]_vars

\* C10's case: close_tab has left a single fresh tab, after documents were
\* saved to every path.
C10_Witness ==
    /\ report = Quiet("close_tab")
    /\ tabs = <<NewTab(Untitled, <<>>)>>
    /\ \A p \in Paths : fs[p].exists /\ ~LacksText(fs, p)

\* What a successful save of the editor to the path leaves in the file.
SavedData(editor, p) ==
    IF EndsWithEsh(p) THEN JsonDump(EshData(editor)) ELSE PlainData(editor)

\* C11, as stated: an autosave tick writes at most one file, the location of
\* the current tab, and leaves unchanged every tab's content, formatting and
\* location, the tab count and selection, and the file at the location of
\* every non-current tab.
C11_AutosaveFrameAllOtherTabs ==
    [][(report'.op = "autosave" /\ \E outcome \in IoOutcomes : autosave_tick(outcome)) =>
          /\ tabs' = tabs
          /\ current' = current
          /\ \A p \in Paths : fs'[p] # fs[p] => p = Title
          /\ \A i \in 1..Len(tabs) :
                (i # current /\ tabs[i].title \in Paths) =>
                    fs'[tabs[i].title] = fs[tabs[i].title]]_vars

\* C11, amended: an autosave tick writes at most one file, the location of the
\* current tab, and leaves unchanged every tab's content, formatting and
\* location, the tab count and selection, and the file at the location of
\* every non-current tab whose location is not also the current tab's.
C11_AutosaveFrame ==
    [][(report'.op = "autosave" /\ \E outcome \in IoOutcomes : autosave_tick(outcome)) =>
          /\ tabs' = tabs
          /\ current' = current
          /\ \A p \in Paths : fs'[p] # fs[p] => p = Title
          /\ \A i \in 1..Len(tabs) :
                (i # current /\ tabs[i].title \in Paths /\ tabs[i].title # Title) =>
                    fs'[tabs[i].title] = fs[tabs[i].title]]_vars

\* C11's case: a tick has written the second tab's document to its location
\* while the first tab, located elsewhere, holds text its file does not.
C11_Witness ==
    /\ report = Report("autosave", "status", "Autosaved")
    /\ Len(tabs) = 2
    /\ current = 2
    /\ Title \in Paths
    /\ tabs[1].title \in Paths \ {Title}
    /\ fs[Title].data = SavedData(Editor, Title)
    /\ fs[tabs[1].title].exists
    /\ fs[tabs[1].title].data # SavedData(tabs[1], tabs[1].title)

====
